---- MODULE Spec2Model ----
(***************************************************************************)
(* Model of generate_token.py, the JWT fixture generator of the GA         *)
(* Ticketing System.  One process run imports its modules, passes the      *)
(* __main__ guard, generates and prints one token per entry of the users   *)
(* table, writes test_tokens.json and prints three export lines.  The      *)
(* output file outlives the process, so a behaviour is a sequence of runs. *)
(*                                                                         *)
(* Strings are TLA+ strings.  A Python dict is the sequence of its         *)
(* <<key, value>> items in insertion order.  A datetime is a record        *)
(* [sec, us] (whole seconds since the epoch, microseconds).  A signed      *)
(* token is the record of its three segments.  uuid.uuid4() is modelled as *)
(* the identity of the draw from the system's random source: two draws     *)
(* are taken to give two different identifiers.                            *)
(***************************************************************************)
EXTENDS Integers, Sequences, FiniteSets, TLC

VARIABLES
  pc,          \* where the process is
  libPresent,  \* whether PyJWT can be imported in this run
  runs,        \* number of the current run
  file,        \* test_tokens.json: the members of its object, in order
  fileAtStart, \* what the file held when this run started
  tokens,      \* the tokens dict of main()
  console,     \* the lines printed on stdout by this run
  idx,         \* position of the for loop in users.items()
  drawn,       \* number of uuid4() draws made so far, over all runs
  issued,      \* the jti of every payload built so far, over all runs
  calls,       \* this run's generate_token calls: role, clock, payload
  opened,      \* whether this run has opened the file
  signFailed,  \* whether jwt.encode has raised in this run
  exitCode     \* exit status of the process, Running until it ends

vars == <<pc, libPresent, runs, file, fileAtStart, tokens, console, idx,
          drawn, issued, calls, opened, signFailed, exitCode>>

(* ---- bounds ---- *)
MaxRuns == 2
MaxSec == 1

(* ---- module constants, lines 13-15 ---- *)
JWT_SECRET == "your-super-secret-jwt-key-change-this-in-production"
JWT_ISSUER == "ga-ticketing-system"
ALGORITHM == "HS256"

(* timedelta(hours=24), line 20 *)
ExpiryHours == 24

(* The users table of main(), in declaration order. *)
users ==
  << <<"requester", [id |-> "req-001", employee_id |-> "EMP001",
                     name |-> "John Requester",
                     email |-> "john.requester@company.com",
                     role |-> "requester", department |-> "IT"]>>,
     <<"approver",  [id |-> "app-001", employee_id |-> "EMP002",
                     name |-> "Jane Approver",
                     email |-> "jane.approver@company.com",
                     role |-> "approver", department |-> "Finance"]>>,
     <<"admin",     [id |-> "adm-001", employee_id |-> "EMP003",
                     name |-> "Admin User",
                     email |-> "admin@company.com",
                     role |-> "admin", department |-> "GA"]>> >>

(* ---- dict helpers ---- *)
Keys(d) == {d[i][1] : i \in 1..Len(d)}

KeySeq(d) == [i \in 1..Len(d) |-> d[i][1]]

HasKey(d, k) == \E i \in 1..Len(d) : d[i][1] = k

(* d[k] for a key that is present *)
Get(d, k) == d[CHOOSE i \in 1..Len(d) : d[i][1] = k][2]

(* sorted(users.items()) instead of users.items() *)
ItemsSorted(d) ==
  LET rank(k) == IF k = "admin" THEN 1 ELSE IF k = "approver" THEN 2 ELSE 3
      pos(n) == CHOOSE i \in 1..Len(d) :
                  Cardinality({j \in 1..Len(d) : rank(d[j][1]) < rank(d[i][1])}) = n - 1
  IN [n \in 1..Len(d) |-> d[pos(n)]]

(* users.items(): the items in insertion order *)
Items(d) == [i \in 1..Len(d) |-> d[i]]

(* the dict re-created on every iteration: tokens = {role: token} *)
DictSetFresh(d, k, v) == << <<k, v>> >>

(* d[k] = v: replace the value of an existing key in place, else append *)
DictSet(d, k, v) ==
  IF HasKey(d, k)
  THEN [i \in 1..Len(d) |-> IF d[i][1] = k THEN <<k, v>> ELSE d[i]]
  ELSE Append(d, <<k, v>>)

(* str.upper() on the keys of the table *)
Upper(s) ==
  CASE s = "requester" -> "REQUESTER"
    [] s = "approver"  -> "APPROVER"
    [] s = "admin"     -> "ADMIN"
    [] OTHER           -> s

(* ---- time ---- *)
Micros == {0, 999999}

(* the values datetime.utcnow() may return *)
Times == [sec : 0..MaxSec, us : Micros]

(* now + timedelta(hours=1) *)
ExpiresAtOneHour(now) == [sec |-> now.sec + 3600, us |-> now.us]

(* now + timedelta(hours=24) *)
ExpiresAt(now) == [sec |-> now.sec + ExpiryHours * 3600, us |-> now.us]

(* PyJWT turns a datetime claim into calendar.timegm(dt.utctimetuple()):   *)
(* whole seconds, the microseconds are dropped.                            *)
TimeGm(dt) == dt.sec

(* ---- identifiers ---- *)
(* one identifier computed once and reused by every call *)
uuid4Reused(n) == [draw |-> 0]

(* str(uuid.uuid4()), the n-th draw from the random source *)
uuid4(n) == [draw |-> n]

(* ---- generate_token ---- *)
(* sub taken from the employee number *)
PayloadSubEmployee(user_info, now, jti) ==
  [user_id |-> user_info.id, employee_id |-> user_info.employee_id,
   name |-> user_info.name, email |-> user_info.email,
   role |-> user_info.role, department |-> user_info.department,
   jti |-> jti, iss |-> JWT_ISSUER, sub |-> user_info.employee_id,
   aud |-> <<"ga-ticketing-client">>,
   exp |-> ExpiresAt(now), nbf |-> now, iat |-> now]

(* the department left out of the claims *)
PayloadNoDepartment(user_info, now, jti) ==
  [user_id |-> user_info.id, employee_id |-> user_info.employee_id,
   name |-> user_info.name, email |-> user_info.email,
   role |-> user_info.role,
   jti |-> jti, iss |-> JWT_ISSUER, sub |-> user_info.id,
   aud |-> <<"ga-ticketing-client">>,
   exp |-> ExpiresAt(now), nbf |-> now, iat |-> now]

(* the payload dict of lines 22-36 *)
Payload(user_info, now, jti) ==
  [user_id |-> user_info.id, employee_id |-> user_info.employee_id,
   name |-> user_info.name, email |-> user_info.email,
   role |-> user_info.role, department |-> user_info.department,
   jti |-> jti, iss |-> JWT_ISSUER, sub |-> user_info.id,
   aud |-> <<"ga-ticketing-client">>,
   exp |-> ExpiresAt(now), nbf |-> now, iat |-> now]

(* the payload segment: exp, iat and nbf become integer timestamps *)
EncodeClaims(p) ==
  [p EXCEPT !.exp = TimeGm(p.exp), !.nbf = TimeGm(p.nbf), !.iat = TimeGm(p.iat)]

(* the HMAC of the first two segments under the key *)
Hmac(key, msg) == [key |-> key, msg |-> msg]

(* jwt.encode(payload, key, algorithm): header, payload, signature *)
JwtEncode(p, key, alg) ==
  LET header == [alg |-> alg, typ |-> "JWT"]
      body == EncodeClaims(p)
  IN [header |-> header, payload |-> body,
      signature |-> Hmac(key, <<header, body>>)]

(* generate_token(user_info) with the clock reading and the draw it makes. *)
(* Lines 40-41 decode a bytes result of an old PyJWT to the same text, so  *)
(* the returned string is the encoded token in both cases.                 *)
generate_token(user_info, now, n) ==
  JwtEncode(Payload(user_info, now, uuid4(n)), JWT_SECRET, ALGORITHM)

(* ---- console and file ---- *)
(* lines 75-77 *)
Banner == << <<"GA Ticketing System - JWT Token Generator">>,
             <<"==================================================">>,
             <<"">> >>

(* lines 84-89: one role's block *)
Block(role, user_info, token) ==
  << <<"USER:", Upper(role)>>,
     <<"  Name: ", user_info.name>>,
     <<"  Email: ", user_info.email>>,
     <<"  Role: ", user_info.role>>,
     <<"  Token: ", token>>,
     <<"">> >>

(* the approver and admin lines with each other's token *)
ExportLinesSwapped(d) ==
  << <<"export", "REQUESTER_TOKEN", Get(d, "requester")>>,
     <<"export", "APPROVER_TOKEN", Get(d, "admin")>>,
     <<"export", "ADMIN_TOKEN", Get(d, "approver")>> >>

(* lines 98-100 *)
ExportLines(d) ==
  << <<"export", "REQUESTER_TOKEN", Get(d, "requester")>>,
     <<"export", "APPROVER_TOKEN", Get(d, "approver")>>,
     <<"export", "ADMIN_TOKEN", Get(d, "admin")>> >>

(* lines 95-97 *)
Trailer == << <<"Tokens saved to: test_tokens.json">>, <<"">>,
              <<"Usage examples:">> >>

(* open(path, "a"): the contents are kept *)
OpenAppend(f) == f

(* open(path, "w"): the file is created or truncated *)
OpenWrite(f) == <<>>

(* json.dump(d, f, indent=2): the object's members, in the dict's order,  *)
(* written at the end of what the file holds                              *)
JsonDump(f, d) == f \o [i \in 1..Len(d) |-> <<d[i][1], d[i][2]>>]

(* ---- what test_tokens.json may hold before the first run: nothing (no  *)
(* file, or an empty one), or the tokens of an earlier table ---- *)
GuestProfile == [id |-> "gst-001", employee_id |-> "EMP009", name |-> "Guest",
                 email |-> "guest@company.com", role |-> "guest",
                 department |-> "None"]

PriorFiles ==
  { <<>>,
    << <<"guest", generate_token(GuestProfile, [sec |-> 0, us |-> 0], 1)>>,
       <<"admin", generate_token(users[3][2], [sec |-> 0, us |-> 0], 2)>> >> }

Running == -1

Init ==
  /\ pc = "import"
  /\ libPresent \in BOOLEAN
  /\ runs = 1
  /\ file \in PriorFiles
  /\ fileAtStart = file
  /\ tokens = <<>>
  /\ console = <<>>
  /\ idx = 1
  /\ drawn = 2   \* the draws behind the tokens of PriorFiles
  /\ issued = [i \in 1..Len(file) |-> file[i][2].payload.jti]
  /\ calls = <<>>
  /\ opened = FALSE
  /\ signFailed = FALSE
  /\ exitCode = Running

(* line 7: import jwt at module level.  Without the library the import    *)
(* raises ModuleNotFoundError, nothing catches it and the interpreter     *)
(* exits with status 1 after a traceback on stderr.                       *)
ImportModule ==
  /\ pc = "import"
  /\ IF libPresent
     THEN pc' = "guard" /\ exitCode' = exitCode
     ELSE pc' = "crashed" /\ exitCode' = 1
  /\ UNCHANGED <<libPresent, runs, file, fileAtStart, tokens, console, idx,
                 drawn, issued, calls, opened, signFailed>>

(* lines 102-111 and 75-80: the guard imports jwt again; main() prints    *)
(* the banner and starts with an empty dict.                              *)
MainGuard ==
  /\ pc = "guard"
  /\ IF libPresent
     THEN /\ pc' = "loop"
          /\ console' = console \o Banner
          /\ tokens' = <<>>
          /\ idx' = 1
          /\ exitCode' = exitCode
     ELSE /\ pc' = "exited"
          /\ console' = console \o << <<"Error: PyJWT is not installed.">>,
                                      <<"Install it with: pip install PyJWT">> >>
          /\ exitCode' = 1
          /\ UNCHANGED <<tokens, idx>>
  /\ UNCHANGED <<libPresent, runs, file, fileAtStart, drawn, issued, calls, opened,
                 signFailed>>

(* lines 81-89, one iteration whose jwt.encode raises *)
GenerateSwallowed ==
  /\ pc = "loop"
  /\ idx <= Len(Items(users))
  /\ \E now \in Times :
       LET payload == Payload(Items(users)[idx][2], now, uuid4(drawn + 1))
       IN /\ calls' = Append(calls, [role |-> Items(users)[idx][1],
                                     now |-> now, payload |-> payload])
          /\ issued' = Append(issued, payload.jti)
  /\ drawn' = drawn + 1
  /\ signFailed' = TRUE
  /\ idx' = idx + 1
  /\ UNCHANGED <<pc, exitCode, libPresent, runs, file, fileAtStart, tokens,
                 console, opened>>

(* lines 81-82, an iteration whose jwt.encode raises: the exception       *)
(* leaves generate_token and main, and the process exits with status 1.   *)
GenerateFails ==
  /\ pc = "loop"
  /\ idx <= Len(Items(users))
  /\ \E now \in Times :
       LET payload == Payload(Items(users)[idx][2], now, uuid4(drawn + 1))
       IN /\ calls' = Append(calls, [role |-> Items(users)[idx][1],
                                     now |-> now, payload |-> payload])
          /\ issued' = Append(issued, payload.jti)
  /\ drawn' = drawn + 1
  /\ signFailed' = TRUE
  /\ pc' = "aborted"
  /\ exitCode' = 1
  /\ UNCHANGED <<libPresent, runs, file, fileAtStart, tokens, console, idx,
                 opened>>

(* lines 81-89, one iteration: generate, store, print *)
GenerateOk ==
  /\ pc = "loop"
  /\ idx <= Len(Items(users))
  /\ \E now \in Times :
       LET role == Items(users)[idx][1]
           user_info == Items(users)[idx][2]
           payload == Payload(user_info, now, uuid4(drawn + 1))
           token == generate_token(user_info, now, drawn + 1)
       IN /\ tokens' = DictSet(tokens, role, token)
          /\ console' = console \o Block(role, user_info, token)
          /\ calls' = Append(calls, [role |-> role, now |-> now,
                                     payload |-> payload])
          /\ issued' = Append(issued, payload.jti)
  /\ drawn' = drawn + 1
  /\ idx' = idx + 1
  /\ UNCHANGED <<pc, libPresent, runs, file, fileAtStart, opened, signFailed,
                 exitCode>>

(* line 92: the loop is over, open("test_tokens.json", "w") *)
OpenFile ==
  /\ pc = "loop"
  /\ idx > Len(Items(users))
  /\ file' = OpenWrite(file)
  /\ opened' = TRUE
  /\ pc' = "dump"
  /\ UNCHANGED <<libPresent, runs, fileAtStart, tokens, console, idx, drawn, issued,
                 calls, signFailed, exitCode>>

(* line 93 and the end of the with block *)
DumpFile ==
  /\ pc = "dump"
  /\ file' = JsonDump(file, tokens)
  /\ pc' = "exports"
  /\ UNCHANGED <<libPresent, runs, fileAtStart, tokens, console, idx, drawn, issued,
                 calls, opened, signFailed, exitCode>>

(* lines 95-100, then the interpreter exits with status 0 *)
PrintExports ==
  /\ pc = "exports"
  /\ console' = console \o Trailer \o ExportLines(tokens)
  /\ pc' = "done"
  /\ exitCode' = 0
  /\ UNCHANGED <<libPresent, runs, file, fileAtStart, tokens, idx, drawn, issued,
                 calls, opened, signFailed>>

Ended == pc \in {"done", "aborted", "crashed", "exited"}

(* the program is started again; the file is what the last run left *)
Rerun ==
  /\ Ended
  /\ runs < MaxRuns
  /\ runs' = runs + 1
  /\ libPresent' \in BOOLEAN
  /\ pc' = "import"
  /\ fileAtStart' = file
  /\ tokens' = <<>>
  /\ console' = <<>>
  /\ idx' = 1
  /\ calls' = <<>>
  /\ opened' = FALSE
  /\ signFailed' = FALSE
  /\ exitCode' = Running
  /\ UNCHANGED <<file, drawn, issued>>

Next ==
  \/ ImportModule
  \/ MainGuard
  \/ GenerateOk
  \/ GenerateFails
  \/ OpenFile
  \/ DumpFile
  \/ PrintExports
  \/ Rerun

Spec == Init /\ [][Next]_vars

(***************************************************************************)
(* Properties                                                              *)
(***************************************************************************)
RoleOrder == <<"requester", "approver", "admin">>

RoleNames == {"requester", "approver", "admin"}

Values(d) == {d[i][2] : i \in 1..Len(d)}

(* the run has written the file completely *)
Written == pc \in {"exports", "done"}

(* the roles of the block headers on the console, in printing order *)
IsHeader(l) == Len(l) = 2 /\ l[1] = "USER:"

PrintedRoles ==
  LET hs == SelectSeq(console, IsHeader) IN [i \in 1..Len(hs) |-> hs[i][2]]

(* the tokens of the token lines on the console, in printing order *)
IsTokenLine(l) == Len(l) = 2 /\ l[1] = "  Token: "

PrintedTokens ==
  LET ts == SelectSeq(console, IsTokenLine) IN [i \in 1..Len(ts) |-> ts[i][2]]

IsExport(l) == Len(l) = 3 /\ l[1] = "export"

ExportsPrinted == SelectSeq(console, IsExport)

(* index of the last console line that belongs to a role's block *)
LastBlockLine ==
  LET S == {i \in 1..Len(console) : IsTokenLine(console[i])}
  IN IF S = {} THEN 0 ELSE CHOOSE i \in S : \A j \in S : j <= i

DtLeq(a, b) == a.sec < b.sec \/ (a.sec = b.sec /\ a.us <= b.us)

NoDuplicates(q) == \A i, j \in 1..Len(q) : i # j => q[i] # q[j]

(* C1: after a completed run the keys of the mapping in test_tokens.json   *)
(* are exactly requester, approver and admin, the roles of the users       *)
(* table, each once.                                                       *)
C1_KeySet ==
  Written =>
    /\ Keys(file) = RoleNames
    /\ Keys(file) = Keys(users)
    /\ Len(file) = Cardinality(RoleNames)
    /\ NoDuplicates(KeySeq(file))

C1_Witness == pc = "done" /\ runs = 1 /\ fileAtStart = <<>>

(* C2: in every payload built by generate_token iat and nbf are the one    *)
(* captured time and exp is that time plus 24 hours; in every token the    *)
(* encoded claims satisfy nbf <= iat <= exp, iat = nbf and                 *)
(* exp - iat = 86400.                                                      *)
C2_TimeClaims ==
  /\ \A i \in 1..Len(calls) :
       LET p == calls[i].payload
       IN /\ p.iat = calls[i].now
          /\ p.nbf = calls[i].now
          /\ DtLeq(p.nbf, p.iat) /\ DtLeq(p.iat, p.exp)
          /\ p.exp.sec - p.iat.sec = 86400
          /\ p.exp.us = p.iat.us
  /\ \A i \in 1..Len(tokens) :
       LET c == tokens[i][2].payload
       IN /\ c.nbf <= c.iat /\ c.iat <= c.exp
          /\ c.iat = c.nbf
          /\ c.exp - c.iat = 86400
          /\ c.iat = calls[i].now.sec

C2_Witness ==
  /\ Len(tokens) = 3
  /\ calls[1].now = [sec |-> 0, us |-> 999999]
  /\ calls[3].now = [sec |-> 1, us |-> 0]

(* C3: the token stored under a role has sub equal to the id and role      *)
(* equal to the role string of the profile declared under that role, the   *)
(* fixed iss and aud, and the sub of no other profile.                     *)
C3_SubAndRole ==
  \A i \in 1..Len(tokens) :
    LET r == tokens[i][1]
        c == tokens[i][2].payload
    IN /\ HasKey(users, r)
       /\ c.sub = Get(users, r).id
       /\ c.role = Get(users, r).role
       /\ c.iss = "ga-ticketing-system"
       /\ c.aud = <<"ga-ticketing-client">>
       /\ \A k \in Keys(users) \ {r} : c.sub # Get(users, k).id

C3_Witness ==
  /\ Len(tokens) = 3
  /\ Get(tokens, "admin").payload.sub = "adm-001"
  /\ Get(tokens, "admin").payload.role = "admin"

(* C4: when the signing library is absent the run ends with the install    *)
(* guidance printed and a non-zero exit code, before any token is          *)
(* generated, any block is printed or the file is touched.                 *)
GuidancePrinted ==
  \E i \in 1..Len(console) :
    Len(console[i]) = 1 /\ console[i][1] = "Install it with: pip install PyJWT"

C4_EnvironmentError ==
  (~libPresent /\ Ended) =>
    /\ GuidancePrinted
    /\ exitCode # 0
    /\ calls = <<>>
    /\ PrintedRoles = <<>>
    /\ ~opened
    /\ file = fileAtStart

(* C5: after a completed run the file holds exactly the mapping of this    *)
(* run; no member and no token of the file's prior contents survives, and  *)
(* no key outside the users table.                                         *)
C5_Overwrite ==
  Written =>
    /\ file = tokens
    /\ \A j \in 1..Len(fileAtStart) :
         /\ \A i \in 1..Len(file) : file[i] # fileAtStart[j]
         /\ fileAtStart[j][2] \notin Values(file)
    /\ Keys(file) \cap (Keys(fileAtStart) \ Keys(users)) = {}

C5_Witness == pc = "done" /\ HasKey(fileAtStart, "guest")

(* C6: every call of generate_token puts a new jti in the claims: no two   *)
(* payloads ever built share a jti, the tokens of one run have pairwise    *)
(* different jti, and the token of a role differs in jti from the token    *)
(* the previous run left under that role.                                  *)
C6_FreshJti ==
  /\ NoDuplicates(issued)
  /\ \A i \in 1..Len(calls) :
       calls[i].payload.jti = issued[Len(issued) - Len(calls) + i]
  /\ \A i, j \in 1..Len(tokens) :
       i # j => tokens[i][2].payload.jti # tokens[j][2].payload.jti
  /\ \A i \in 1..Len(tokens) : \A j \in 1..Len(fileAtStart) :
       tokens[i][2].payload.jti # fileAtStart[j][2].payload.jti

C6_Witness ==
  /\ runs = 2
  /\ pc = "done"
  /\ Keys(fileAtStart) = RoleNames
  /\ Get(fileAtStart, "admin").payload.iat = Get(tokens, "admin").payload.iat

(* C7 as stated: the claims are the six profile fields under their own     *)
(* names, id included, plus jti, iss, sub, aud, exp, nbf and iat.          *)
ProfileFields == {"id", "employee_id", "name", "email", "role", "department"}

AddedClaims == {"jti", "iss", "sub", "aud", "exp", "nbf", "iat"}

C7_Original ==
  \A i \in 1..Len(tokens) :
    LET c == tokens[i][2].payload
        u == Get(users, tokens[i][1])
    IN /\ DOMAIN c = ProfileFields \cup AddedClaims
       /\ \A f \in ProfileFields : c[f] = u[f]

(* C7 amended: the profile's id is carried under user_id, the other five   *)
(* profile fields under their own names, and the added claims are jti,     *)
(* iss, sub, aud, exp, nbf and iat; there is no other claim.               *)
C7_Claims ==
  \A i \in 1..Len(tokens) :
    LET c == tokens[i][2].payload
        u == Get(users, tokens[i][1])
    IN /\ DOMAIN c = ((ProfileFields \ {"id"}) \cup {"user_id"}) \cup AddedClaims
       /\ c.user_id = u.id
       /\ \A f \in ProfileFields \ {"id"} : c[f] = u[f]

C7_Witness == Len(tokens) = 3 /\ pc = "loop"

(* C8: a signing failure aborts the run for good, with a non-zero exit     *)
(* code and the failed call not repeated; the file is opened only when     *)
(* every role has its token and no signing has failed, so an aborted run   *)
(* leaves the file as it found it.                                         *)
C8_AbortBeforeWrite ==
  /\ signFailed =>
       /\ pc = "aborted"
       /\ exitCode = 1
       /\ ~opened
       /\ file = fileAtStart
       /\ Len(calls) = Len(tokens) + 1
       /\ Len(tokens) < Len(users)
  /\ opened =>
       /\ ~signFailed
       /\ Keys(tokens) = Keys(users)
       /\ Len(calls) = Len(users)

C8_Witness ==
  /\ pc = "aborted"
  /\ Len(tokens) = 2
  /\ fileAtStart # <<>>
  /\ file = fileAtStart

(* C9: the table is walked in declaration order with one generate_token    *)
(* call per entry, each role's block is on the console as soon as its      *)
(* token is in the mapping and in the mapping's order, and the file is     *)
(* opened and the export lines are printed only after the last block.      *)
C9_Order ==
  /\ Len(calls) <= Len(RoleOrder)
  /\ \A i \in 1..Len(calls) : calls[i].role = RoleOrder[i]
  /\ Len(tokens) <= Len(RoleOrder)
  /\ \A i \in 1..Len(tokens) : tokens[i][1] = RoleOrder[i]
  /\ Len(PrintedRoles) = Len(tokens)
  /\ \A i \in 1..Len(tokens) :
       /\ PrintedRoles[i] = Upper(tokens[i][1])
       /\ PrintedTokens[i] = tokens[i][2]
  /\ (opened \/ ExportsPrinted # <<>>) =>
       /\ Len(PrintedRoles) = Len(RoleOrder)
       /\ Len(calls) = Len(RoleOrder)
  /\ \A i \in 1..Len(console) : IsExport(console[i]) => i > LastBlockLine
  /\ pc = "done" => Len(calls) = Len(RoleOrder)

C9_Witness ==
  /\ pc = "done"
  /\ PrintedRoles = <<"REQUESTER", "APPROVER", "ADMIN">>
  /\ KeySeq(file) = RoleOrder

(* C10: in a completed run, for each role the token of its console block,  *)
(* the value under its key in the file and the token of its export line    *)
(* are the same; there are exactly three export lines and three            *)
(* generate_token calls.                                                   *)
ExportName(r) ==
  CASE r = "requester" -> "REQUESTER_TOKEN"
    [] r = "approver"  -> "APPROVER_TOKEN"
    [] r = "admin"     -> "ADMIN_TOKEN"

C10_OutputsAgree ==
  pc = "done" =>
    /\ Len(ExportsPrinted) = 3
    /\ Len(PrintedTokens) = 3
    /\ Len(calls) = 3
    /\ \A r \in RoleNames :
         /\ HasKey(file, r)
         /\ \E i \in 1..Len(PrintedRoles) :
              PrintedRoles[i] = Upper(r) /\ PrintedTokens[i] = Get(file, r)
         /\ \E i \in 1..Len(ExportsPrinted) :
              /\ ExportsPrinted[i][2] = ExportName(r)
              /\ ExportsPrinted[i][3] = Get(file, r)
         /\ \A i \in 1..Len(ExportsPrinted) :
              ExportsPrinted[i][2] = ExportName(r) =>
                ExportsPrinted[i][3] = Get(file, r)
         /\ Get(file, r).payload.role = r

C10_Witness ==
  /\ pc = "done"
  /\ Len(ExportsPrinted) = 3
  /\ ExportsPrinted[2][3] = Get(file, "approver")

====
